---- MODULE Spec2Model ----
(***************************************************************************)
(* twitscrape: the paginated scrape loop Scrape.Tweets and the three-pass  *)
(* extraction Scrape.tweets.                                               *)
(*                                                                         *)
(* Strings that the code inspects (permalink paths, ids, tweet text) are   *)
(* sequences of one-character strings, so that strings.Split, strings.Trim *)
(* and the comparison with "" are computed as the code computes them.      *)
(* The remote archive and the parsed document are the environment: each    *)
(* doc.Find draws the size of its selection, each callback of              *)
(* Selection.Each draws the fragment it is handed.                         *)
(***************************************************************************)
EXTENDS Integers, Sequences, FiniteSets, TLC

VARIABLES
    calls,      \* number of Scrape.Tweets invocations started in the process
    info,       \* s.Info != nil
    log,        \* lines written to s.Info
    args,       \* search, start, until of the running invocation
    pc,         \* position of the running invocation
    minID,      \* Tweets: var minID string
    maxID,      \* Tweets: var maxID string
    t,          \* Tweets: var t []Tweet
    u,          \* the URL built by f for the current iteration
    tweets,     \* tweets: the named result under construction
    nIdent,     \* len(sel.Nodes) of the identity selection of the page
    nSel,       \* number of nodes of the selection being iterated
    i,          \* index handed to the running Each callback
    ret,        \* what Tweets returned: [done, tweets, err]
    resp,       \* outcome of the last http.Get and JSON decode
    reqs,       \* history: URLs fetched by this invocation, in order
    pages,      \* history: pages returned by tweets in this invocation
    prevMax,    \* history: maxID when the previous invocation ended
    prev,       \* history: the previous invocation, kept against a fixed archive
    malformed,  \* history: per identity fragment of the page, was it broken
    frags,      \* history: the fragments handed to the callbacks of passes
                \* 1 and 2 for the records of the last page that had any
    other,      \* the locals of a second, suspended invocation
    archive,    \* the remote archive, when it is a fixed one
    env         \* what the markup of the remote pages can hold

vars == <<calls, info, log, args, pc, minID, maxID, t, u, tweets, nIdent,
          nSel, i, ret, resp, reqs, pages, prevMax, prev, malformed, frags,
          other, archive, env>>

----------------------------------------------------------------------------
(* Bounds *)

MaxCalls == 2       \* invocations per process
MaxFetch == 2       \* fetches per invocation
MaxArchiveFetch == 3 \* fetches per invocation against a fixed archive
MaxFrags == 2       \* identity fragments per page
MaxExtra == 1       \* timestamp/content fragments beyond MaxFrags
MaxArchive == 2     \* entries of a fixed archive
PageSize == 2       \* entries the fixed archive serves per request

----------------------------------------------------------------------------
(* Strings *)

EmptyStr == <<>>

\* byte 0x7f, an ASCII control character
DEL == "DEL"

RECURSIVE Split(_, _)
\* strings.Split(s, sep) for a one-character sep: always at least one piece
Split(s, sep) ==
    IF \A k \in 1..Len(s) : s[k] # sep
    THEN <<s>>
    ELSE LET k == CHOOSE k \in 1..Len(s) :
                      s[k] = sep /\ \A j \in 1..(k - 1) : s[j] # sep
         IN  <<SubSeq(s, 1, k - 1)>> \o Split(SubSeq(s, k + 1, Len(s)), sep)

RECURSIVE TrimLeft(_, _)
TrimLeft(s, cutset) ==
    IF s # <<>> /\ Head(s) \in cutset THEN TrimLeft(Tail(s), cutset) ELSE s

RECURSIVE TrimRight(_, _)
TrimRight(s, cutset) ==
    IF s # <<>> /\ s[Len(s)] \in cutset
    THEN TrimRight(SubSeq(s, 1, Len(s) - 1), cutset)
    ELSE s

\* strings.Trim(s, cutset)
Trim(s, cutset) == TrimRight(TrimLeft(s, cutset), cutset)

----------------------------------------------------------------------------
(* Tweet *)

\* time.Time{}: January 1, year 1, 00:00 UTC
ZeroTime == [y |-> 1, mo |-> 1, d |-> 1, h |-> 0, mi |-> 0]

\* Tweet{}
EmptyTweet ==
    [Permalink |-> EmptyStr, Name |-> EmptyStr, Timestamp |-> ZeroTime,
     Contents |-> EmptyStr, ID |-> EmptyStr]

\* the host of the search URL, without www
statusfBare == <<"https://twitter.com">>

\* const statusf = "https://www.twitter.com%s"
statusf == <<"https://www.twitter.com">>

MinSegments == 4

\* a callback that accepts a path one segment short of MinSegments and takes
\* the last segment as the id
TweetOfPermalinkLoose(frag) ==
    IF ~frag.has
    THEN EmptyTweet
    ELSE LET sl == Split(frag.path, "/")
         IN  IF Len(sl) < MinSegments - 1
             THEN EmptyTweet
             ELSE [Permalink |-> statusf \o frag.path, Name |-> sl[2],
                   Timestamp |-> ZeroTime, Contents |-> EmptyStr,
                   ID |-> sl[Len(sl)]]

\* the tweet the permalink callback appends for an identity fragment:
\* frag.has is the ok of sel.Attr("data-permalink-path"), frag.path its value
TweetOfPermalink(frag) ==
    IF ~frag.has
    THEN EmptyTweet
    ELSE LET sl == Split(frag.path, "/")
         IN  IF Len(sl) < MinSegments
             THEN EmptyTweet
             ELSE [Permalink |-> statusf \o frag.path, Name |-> sl[2],
                   Timestamp |-> ZeroTime, Contents |-> EmptyStr,
                   ID |-> sl[4]]

----------------------------------------------------------------------------
(* time.Parse("3:04 PM - 2 Jan 2006", title) *)

\* a title attribute is the text "<h>:<mi> <ap> - <d> <mon> <y>", kept as its fields
MonthNum(mon) ==
    CASE mon = "Jan" -> 1 [] mon = "Feb" -> 2 [] mon = "Nov" -> 11
      [] mon = "Dec" -> 12 [] OTHER -> 0

DaysIn(mo) == CASE mo = 2 -> 28 [] mo = 11 -> 30 [] OTHER -> 31

\* the hour read as on a 24-hour clock, AM and PM ignored
ParseTime24(title) ==
    [ok |-> TRUE,
     time |-> [y |-> title.y, mo |-> MonthNum(title.mon), d |-> title.d,
               h |-> title.h, mi |-> title.mi]]

\* [ok, time]: the 12-hour clock is converted, out-of-range fields are errors
ParseTime(title) ==
    LET mo == MonthNum(title.mon)
        bad == \/ title.h < 0 \/ title.h > 12
               \/ title.mi < 0 \/ title.mi > 59
               \/ title.ap \notin {"AM", "PM"}
               \/ mo = 0
               \/ title.d < 1 \/ title.d > DaysIn(mo)
        hour == IF title.ap = "PM" /\ title.h < 12 THEN title.h + 12
                ELSE IF title.ap = "AM" /\ title.h = 12 THEN 0
                ELSE title.h
    IN  IF bad
        THEN [ok |-> FALSE, time |-> ZeroTime]
        ELSE [ok |-> TRUE,
              time |-> [y |-> title.y, mo |-> mo, d |-> title.d,
                        h |-> hour, mi |-> title.mi]]

----------------------------------------------------------------------------
(* The environment: what a page's markup can hold *)

PathPrefix == <<"/", "a", "/", "s">>

\* data-permalink-path values: "/a/s" (too short), "/a/s/<id>"
PathOf(id) == PathPrefix \o <<"/">> \o id

IDs == {<<"1">>, <<"2">>}

\* identity fragments: attribute missing, a short path, a well-formed path,
\* a path whose id segment is empty, a path whose id holds a control byte
NoPath == [has |-> FALSE, path |-> <<>>]
ShortPath == [has |-> TRUE, path |-> PathPrefix]
GoodPath(id) == [has |-> TRUE, path |-> PathOf(id)]

IdFrags ==
    {NoPath, ShortPath, GoodPath(EmptyStr), GoodPath(<<DEL>>)}
        \cup {GoodPath(id) : id \in IDs}

\* the identity fragments that differ in what the loop of Tweets reads
LoopIdFrags == IdFrags \ {GoodPath(EmptyStr)}

NoTitle == [h |-> 0, mi |-> 0, ap |-> "none", d |-> 0, mon |-> "none", y |-> 0]
GoodTitle == [h |-> 3, mi |-> 26, ap |-> "PM", d |-> 10, mon |-> "Nov", y |-> 2009]
BadTitle == [h |-> 15, mi |-> 26, ap |-> "PM", d |-> 10, mon |-> "Nov", y |-> 2009]

\* timestamp fragments: title attribute missing (has = FALSE) or present
TsFrags ==
    {[has |-> FALSE, title |-> NoTitle],
     [has |-> TRUE, title |-> GoodTitle],
     [has |-> TRUE, title |-> BadTitle]}

\* content fragments: sel.Text()
SomeText == <<"\n", "h", " ", "i", " ">>
CsFrags == {<<>>, <<" ", "\n">>, SomeText}

Search1 == <<"#", "g", "o">>
Search2 == <<"#", "g", "o", " ", "f", ":", "x">>
Searches == {Search1, Search2}

\* pages of every shape: any fragment, any number of timestamp and content
\* fragments
AnyMarkup ==
    [ids |-> IdFrags, ts |-> TsFrags, cs |-> CsFrags, exact |-> FALSE,
     searches |-> {Search1}]

\* pages that differ in what the loop of Tweets reads: every identity
\* fragment, well-formed timestamps and contents, one per tweet or more
LoopMarkup ==
    [ids |-> LoopIdFrags, ts |-> {[has |-> TRUE, title |-> GoodTitle]},
     cs |-> {SomeText}, exact |-> TRUE, searches |-> Searches]

Day1 == [y |-> "2009", mo |-> "11", d |-> "10"]
Day2 == [y |-> "2009", mo |-> "11", d |-> "11"]

----------------------------------------------------------------------------
(* f: the URL of one request *)

RECURSIVE QueryEscape(_)
\* url.QueryEscape on the characters the searches use
QueryEscape(s) ==
    IF s = <<>> THEN <<>>
    ELSE LET c == Head(s)
             e == CASE c = " " -> <<"+">>
                    [] c = "#" -> <<"%", "2", "3">>
                    [] c = ":" -> <<"%", "3", "A">>
                    [] OTHER -> <<c>>
         IN  e \o QueryEscape(Tail(s))

\* Time.Format("2006-01-02"), one token per field
FormatDate(day) == <<day.y, "-", day.mo, "-", day.d>>

RECURSIVE ReplaceSpaces(_)
\* strings.Replace(raw, " ", "%20", -1)
ReplaceSpaces(s) ==
    IF s = <<>> THEN <<>>
    ELSE (IF Head(s) = " " THEN <<"%", "2", "0">> ELSE <<Head(s)>>)
             \o ReplaceSpaces(Tail(s))

searchBase == "https://twitter.com/i/search/timeline?f=tweets&vertical=default&q="
maxPosition == "&max_position=TWEET-"

\* raw before the max_position parameter is added
RawBase(a) ==
    ReplaceSpaces(<<searchBase>> \o QueryEscape(a.search)
                    \o <<" ", "since:">> \o FormatDate(a.start)
                    \o <<" ", "until:">> \o FormatDate(a.until)
                    \o <<"&src=typd">>)

\* the cursor parameter put in front of the parameters of the first request
RawURLCursorFirst(a, mx, mn) ==
    IF mx # EmptyStr
    THEN <<maxPosition>> \o mx \o <<"-">> \o mn \o RawBase(a)
    ELSE RawBase(a)

\* the token written as TWEET-<minID>-<maxID>
RawURLFloorFirst(a, mx, mn) ==
    IF mx # EmptyStr
    THEN RawBase(a) \o <<maxPosition>> \o mn \o <<"-">> \o mx
    ELSE RawBase(a)

\* raw as f builds it from its argument and the enclosing minID
RawURL(a, mx, mn) ==
    IF mx # EmptyStr
    THEN RawBase(a) \o <<maxPosition>> \o mx \o <<"-">> \o mn
    ELSE RawBase(a)

\* url.Parse rejects a URL that holds an ASCII control character
ParseFails(raw) == \E k \in 1..Len(raw) : raw[k] = DEL

HasCursor(url) == \E k \in 1..Len(url) : url[k] = maxPosition

\* the text after "&max_position=TWEET-", <<>> when there is none
CursorOf(url) ==
    IF HasCursor(url)
    THEN LET k == CHOOSE k \in 1..Len(url) : url[k] = maxPosition
         IN  SubSeq(url, k + 1, Len(url))
    ELSE <<>>

----------------------------------------------------------------------------
(* Initial state and the invocation *)

NoArchive == [fixed |-> FALSE, entries |-> <<>>]

NoArgs == [search |-> EmptyStr, start |-> Day1, until |-> Day1]
NoRet == [done |-> FALSE, tweets |-> <<>>, err |-> "nil"]

NoPrev ==
    [args |-> NoArgs, reqs |-> <<>>, ret |-> NoRet, minID |-> EmptyStr,
     logged |-> FALSE]

\* no fragment has been handed to a callback
NoFrags == [ids |-> <<>>, ts |-> <<>>]

\* the locals of an invocation that has not started
Idle ==
    [args |-> NoArgs, pc |-> "idle", minID |-> EmptyStr, maxID |-> EmptyStr,
     t |-> <<>>, u |-> <<>>, tweets |-> <<>>, nIdent |-> 0, nSel |-> 0,
     i |-> 0, ret |-> NoRet, resp |-> "none", reqs |-> <<>>, pages |-> <<>>,
     log |-> <<>>, malformed |-> <<>>, frags |-> NoFrags]

Init ==
    /\ calls = 0
    /\ info \in BOOLEAN
    /\ log = <<>>
    /\ args = NoArgs
    /\ pc = "idle"
    /\ minID = EmptyStr
    /\ maxID = EmptyStr
    /\ t = <<>>
    /\ u = <<>>
    /\ tweets = <<>>
    /\ nIdent = 0
    /\ nSel = 0
    /\ i = 0
    /\ ret = NoRet
    /\ resp = "none"
    /\ reqs = <<>>
    /\ pages = <<>>
    /\ prevMax = EmptyStr
    /\ prev = NoPrev
    /\ malformed = <<>>
    /\ frags = NoFrags
    /\ other = Idle
    /\ archive = NoArchive
    /\ env = LoopMarkup

\* infof without the test of s.Info
InfofUnguarded(line) == Append(log, line)

\* s.infof
Infof(line) == IF info THEN Append(log, line) ELSE log

\* return from Tweets
Return(r) ==
    /\ ret' = r
    /\ pc' = "returned"

\* a return that hands the accumulated records back with the error
ErrorKeepsRecords(acc, e) == [done |-> TRUE, tweets |-> acc, err |-> e]

\* return nil, err
OnError(acc, e) == [done |-> TRUE, tweets |-> <<>>, err |-> e]

\* break loop ... return t, nil
OnBreak(acc) == [done |-> TRUE, tweets |-> acc, err |-> "nil"]

\* minID kept from one invocation to the next, as a package-level variable
KeptMinID(old) == old

\* var minID string: a local of Tweets, "" at the start of every invocation
FreshMinID(old) == EmptyStr

\* maxID kept from one invocation to the next, as a package-level variable
KeptMaxID(old) == old

\* var maxID string: a local of Tweets, "" at the start of every invocation
FreshMaxID(old) == EmptyStr

\* the record of the previous invocation is kept when the archive is a
\* fixed one, where a second run can be compared with the first
KeepPrev(p) == IF archive.fixed THEN p ELSE NoPrev

\* a caller builds a Scrape value and calls Tweets: the locals start zeroed
Call ==
    /\ pc \in {"idle", "returned"}
    /\ calls < MaxCalls
    /\ calls' = calls + 1
    /\ \E s \in env.searches : args' = [search |-> s, start |-> Day1, until |-> Day2]
    /\ log' = <<>>
    /\ minID' = FreshMinID(minID)
    /\ maxID' = FreshMaxID(maxID)
    /\ t' = <<>>
    /\ u' = <<>>
    /\ tweets' = <<>>
    /\ nIdent' = 0
    /\ nSel' = 0
    /\ i' = 0
    /\ resp' = "none"
    /\ reqs' = <<>>
    /\ pages' = <<>>
    /\ pc' = "loop"
    /\ ret' = NoRet
    /\ prevMax' = maxID
    /\ prev' = KeepPrev([args |-> args, reqs |-> reqs, ret |-> ret,
                         minID |-> minID, logged |-> log # <<>>])
    /\ malformed' = <<>>
    /\ frags' = NoFrags
    /\ UNCHANGED <<info, archive, env, other>>

\* top of the loop: u, err := f(maxID)
BuildURL ==
    /\ pc = "loop"
    /\ LET raw == RawURL(args, maxID, minID)
       IN  IF ParseFails(raw)
           THEN /\ Return(OnError(t, "parse"))
                /\ UNCHANGED u
           ELSE /\ u' = raw
                /\ pc' = "fetch"
                /\ UNCHANGED ret
    /\ UNCHANGED <<calls, info, log, args, minID, maxID, t, tweets, nIdent,
                   nSel, i, reqs, pages, archive, env, resp, prevMax, prev,
                   malformed, frags, other>>

\* getHTML: log the URL, http.Get, decode the JSON body
GetHTML ==
    /\ pc = "fetch"
    /\ Len(reqs) < (IF archive.fixed THEN MaxArchiveFetch ELSE MaxFetch)
    /\ log' = Infof(<<"fetching", u>>)
    /\ reqs' = Append(reqs, u)
    /\ \E r \in {"ok", "transport", "decode"} :
          /\ resp' = r
          /\ IF r = "ok"
             THEN /\ pc' = "find"
                  /\ UNCHANGED ret
             ELSE Return(OnError(t, r))
    /\ UNCHANGED <<calls, info, args, minID, maxID, t, u, tweets, nIdent,
                   nSel, i, pages, archive, env, prevMax, prev,
                   malformed, frags, other>>

----------------------------------------------------------------------------
(* The remote archive, when it is a fixed one: entries newest first, with   *)
(* strictly descending numeric ids; a request without max_position gets the *)
(* first PageSize entries, a request with TWEET-<max>-<min> the first       *)
(* PageSize entries whose id is below <max>.                                *)

Digit(k) ==
    CASE k = 1 -> "1" [] k = 2 -> "2" [] k = 3 -> "3" [] k = 4 -> "4"
      [] k = 5 -> "5" [] OTHER -> "0"

\* the number an id denotes, 0 when it is not one of the archive's ids
Num(id) ==
    IF Len(id) = 1 /\ \E k \in 1..5 : Digit(k) = id[1]
    THEN CHOOSE k \in 1..5 : Digit(k) = id[1]
    ELSE 0

\* the markup of the entry with id k: its permalink attribute may be
\* missing or malformed
EntryFrags(k) == {NoPath, ShortPath, GoodPath(<<Digit(k)>>)}

Archives ==
    UNION {
        {[fixed |-> TRUE, entries |-> e] :
            e \in {e \in [1..n -> [id : 1..n, frag : IdFrags]] :
                      \A j \in 1..n : /\ e[j].id = n - j + 1
                                      /\ e[j].frag \in EntryFrags(e[j].id)}}
        : n \in 0..MaxArchive}

RECURSIVE Below(_, _)
\* the entries whose id is below m, in archive order
Below(entries, m) ==
    IF entries = <<>> THEN <<>>
    ELSE (IF Head(entries).id < m THEN <<Head(entries)>> ELSE <<>>)
             \o Below(Tail(entries), m)

FirstN(s, n) == SubSeq(s, 1, IF Len(s) < n THEN Len(s) ELSE n)

\* the identity fragments of the page the fixed archive serves for url
ServedPage(url) ==
    IF HasCursor(url)
    THEN FirstN(Below(archive.entries, Num(Split(CursorOf(url), "-")[1])),
                PageSize)
    ELSE FirstN(archive.entries, PageSize)

\* what the identity selection of the fetched page can be
IdentSizes == IF archive.fixed THEN {Len(ServedPage(u))} ELSE 0..MaxFrags

IdentFrags(k) ==
    IF archive.fixed THEN {ServedPage(u)[k + 1].frag} ELSE env.ids

\* how many nodes the timestamp or the contents selection can have
OtherSizes ==
    IF env.exact
    THEN nIdent..(nIdent + MaxExtra)
    ELSE 0..(MaxFrags + MaxExtra)

----------------------------------------------------------------------------
(* tweets: the three passes over one page *)

\* errNoTweets ends the loop only when there is a sink to tell it to
NoTweetsNeedsSink(acc) ==
    IF info THEN OnBreak(acc) ELSE OnError(acc, "no tweets")

\* errNoTweets handled like any other error of tweets
NoTweetsIsFailure(acc) == OnError(acc, "no tweets")

\* tweets returns errNoTweets, Tweets breaks out of the loop on it
OnNoTweets(acc) == OnBreak(acc)

\* a page without identity fragments that is counted like any other
CountOnNoTweets == Infof(<<"processed", 0>>)

\* return nil, errNoTweets comes before any s.infof of tweets
LogOnNoTweets == log

\* sel := doc.Find(".tweet..."); sel.Nodes == nil ends the loop of Tweets
FindTweets ==
    /\ pc = "find"
    /\ \E n \in IdentSizes :
          IF n = 0
          THEN /\ Return(OnNoTweets(t))
               /\ nIdent' = 0
               /\ log' = LogOnNoTweets
               /\ UNCHANGED <<nSel, i, tweets, frags>>
          ELSE /\ pc' = "permalink"
               /\ nIdent' = n
               /\ nSel' = n
               /\ i' = 0
               /\ tweets' = <<>>
               /\ frags' = NoFrags
               /\ UNCHANGED <<ret, log>>
    /\ malformed' = <<>>
    /\ UNCHANGED <<calls, info, args, minID, maxID, t, u, reqs, pages,
                   archive, env, resp, prevMax, prev, other>>

\* the attribute is missing, or its path has fewer than MinSegments pieces
Malformed(frag) == ~frag.has \/ Len(Split(frag.path, "/")) < MinSegments

\* the callback of sel.Each: appends one tweet per identity fragment
PermalinkCb ==
    /\ pc = "permalink"
    /\ i < nSel
    /\ \E frag \in IdentFrags(i) :
          /\ tweets' = Append(tweets, TweetOfPermalink(frag))
          /\ malformed' = Append(malformed, Malformed(frag))
          /\ frags' = [frags EXCEPT !.ids = Append(@, frag)]
          /\ log' = IF TweetOfPermalink(frag) = EmptyTweet
                    THEN Infof(<<"permalink", i>>)
                    ELSE log
    /\ i' = i + 1
    /\ UNCHANGED <<calls, info, args, pc, minID, maxID, t, u, nIdent, nSel,
                   ret, reqs, pages, archive, env, resp, prevMax, prev, other>>

\* doc.Find(".tweet-timestamp...")
FindTimestamps ==
    /\ pc = "permalink"
    /\ i = nSel
    /\ \E n \in OtherSizes : nSel' = n
    /\ i' = 0
    /\ pc' = "timestamp"
    /\ UNCHANGED <<calls, info, log, args, minID, maxID, t, u, tweets, nIdent,
                   ret, reqs, pages, archive, env, resp, prevMax, prev,
                   malformed, frags, other>>

\* the bounds check of the timestamp and contents callbacks
OutOfRange(k, tw) == k > Len(tw)

\* tweets[k] = ... : an index outside the slice panics
CanIndex(k, tw) == k >= 0 /\ k < Len(tw)

\* tweets[k] = Tweet{Timestamp: tme}: the whole record is replaced
ReplaceByTimestamp(tw, k, tme) ==
    [tw EXCEPT ![k + 1] = [EmptyTweet EXCEPT !.Timestamp = tme]]

\* tweets[k].Timestamp = tme
SetTimestamp(tw, k, tme) == [tw EXCEPT ![k + 1].Timestamp = tme]

\* tweets[k].Contents = txt
SetContents(tw, k, txt) == [tw EXCEPT ![k + 1].Contents = txt]

\* the callback of the timestamp selection
TimestampCb ==
    /\ pc = "timestamp"
    /\ i < nSel
    /\ \E frag \in env.ts :
        /\ frags' = IF i < nIdent
                    THEN [frags EXCEPT !.ts = Append(@, frag)]
                    ELSE frags
        /\ IF ~frag.has
            THEN /\ log' = Infof(<<"no timestamp", i>>)
                 /\ i' = i + 1
                 /\ UNCHANGED <<tweets, pc>>
            ELSE IF OutOfRange(i, tweets)
            THEN /\ log' = Infof(<<"timestamps", i, Len(tweets)>>)
                 /\ i' = i + 1
                 /\ UNCHANGED <<tweets, pc>>
            ELSE LET r == ParseTime(frag.title)
                     tme == IF r.ok THEN r.time ELSE ZeroTime
                 IN  /\ log' = IF r.ok THEN log ELSE Infof(<<"bad time", i>>)
                     /\ IF CanIndex(i, tweets)
                        THEN /\ tweets' = SetTimestamp(tweets, i, tme)
                             /\ i' = i + 1
                             /\ UNCHANGED pc
                        ELSE /\ pc' = "panic"
                             /\ UNCHANGED <<tweets, i>>
    /\ UNCHANGED <<calls, info, args, minID, maxID, t, u, nIdent, nSel, ret,
                   reqs, pages, archive, env, resp, prevMax, prev,
                   malformed, other>>

\* doc.Find(".js-tweet-text-container")
FindContents ==
    /\ pc = "timestamp"
    /\ i = nSel
    /\ \E n \in OtherSizes : nSel' = n
    /\ i' = 0
    /\ pc' = "contents"
    /\ UNCHANGED <<calls, info, log, args, minID, maxID, t, u, tweets, nIdent,
                   ret, reqs, pages, archive, env, resp, prevMax, prev,
                   malformed, frags, other>>

Cutset == {" ", "\n"}

\* the callback of the contents selection
ContentsCb ==
    /\ pc = "contents"
    /\ i < nSel
    /\ \E text \in env.cs :
          LET txt == Trim(text, Cutset)
          IN  IF txt = EmptyStr
              THEN /\ log' = Infof(<<"empty contents", i>>)
                   /\ i' = i + 1
                   /\ UNCHANGED <<tweets, pc>>
              ELSE IF OutOfRange(i, tweets)
              THEN /\ log' = Infof(<<"contents", i, Len(tweets)>>)
                   /\ i' = i + 1
                   /\ UNCHANGED <<tweets, pc>>
              ELSE IF CanIndex(i, tweets)
              THEN /\ tweets' = SetContents(tweets, i, txt)
                   /\ i' = i + 1
                   /\ UNCHANGED <<log, pc>>
              ELSE /\ pc' = "panic"
                   /\ UNCHANGED <<tweets, i, log>>
    /\ UNCHANGED <<calls, info, args, minID, maxID, t, u, nIdent, nSel, ret,
                   reqs, pages, archive, env, resp, prevMax, prev,
                   malformed, frags, other>>

\* the end of tweets: log the count and return the page
TweetsDone ==
    /\ pc = "contents"
    /\ i = nSel
    /\ log' = Infof(<<"processed", Len(tweets)>>)
    /\ pages' = Append(pages, tweets)
    /\ pc' = "tail"
    /\ UNCHANGED <<calls, info, args, minID, maxID, t, u, tweets, nIdent,
                   nSel, i, ret, reqs, archive, env, resp, prevMax, prev,
                   malformed, frags, other>>

----------------------------------------------------------------------------
(* Tweets: the rest of the loop body *)

\* if minID == "" { minID = tw[0].ID }
NextMinID(mn, tw) == IF mn = EmptyStr THEN tw[1].ID ELSE mn

\* maxID = tw[len(tw)-1].ID
NextMaxID(tw) == tw[Len(tw)].ID

\* a loop without the guard
GuardMissing(mx, mn) == FALSE

\* if maxID == minID { break loop }
GuardHit(mx, mn) == mx = mn

\* t = append(tw, t...): the page is put in front of what was accumulated
PutInFront(acc, tw) == tw \o acc

\* t = tw: the page replaces what was accumulated
Overwrite(acc, tw) == tw

\* t = append(t, tw...)
Accumulate(acc, tw) == acc \o tw

LoopTail ==
    /\ pc = "tail"
    /\ minID' = NextMinID(minID, tweets)
    /\ t' = Accumulate(t, tweets)
    /\ maxID' = NextMaxID(tweets)
    /\ IF GuardHit(maxID', minID')
       THEN Return(OnBreak(t'))
       ELSE /\ pc' = "loop"
            /\ UNCHANGED ret
    /\ UNCHANGED <<calls, info, log, args, u, tweets, nIdent, nSel, i, reqs,
                   pages, archive, env, resp, prevMax, prev,
                   malformed, frags, other>>

Next ==
    \/ Call
    \/ BuildURL
    \/ GetHTML
    \/ FindTweets
    \/ PermalinkCb
    \/ FindTimestamps
    \/ TimestampCb
    \/ FindContents
    \/ ContentsCb
    \/ TweetsDone
    \/ LoopTail

Spec == Init /\ [][Next]_vars

----------------------------------------------------------------------------
(* The same program against a fixed archive *)

InitArchive ==
    /\ calls = 0
    /\ info \in BOOLEAN
    /\ log = <<>>
    /\ args = NoArgs
    /\ pc = "idle"
    /\ minID = EmptyStr
    /\ maxID = EmptyStr
    /\ t = <<>>
    /\ u = <<>>
    /\ tweets = <<>>
    /\ nIdent = 0
    /\ nSel = 0
    /\ i = 0
    /\ ret = NoRet
    /\ resp = "none"
    /\ reqs = <<>>
    /\ pages = <<>>
    /\ prevMax = EmptyStr
    /\ prev = NoPrev
    /\ malformed = <<>>
    /\ frags = NoFrags
    /\ other = Idle
    /\ archive \in Archives
    /\ env = LoopMarkup

SpecArchive == InitArchive /\ [][Next]_vars

----------------------------------------------------------------------------
(* tweets alone: the extraction of one fetched page of any shape *)

InitExtract ==
    /\ calls = 1
    /\ info \in BOOLEAN
    /\ args = [search |-> Search1, start |-> Day1, until |-> Day2]
    /\ u = RawBase(args)
    /\ log = IF info THEN <<<<"fetching", u>>>> ELSE <<>>
    /\ pc = "find"
    /\ minID = EmptyStr
    /\ maxID = EmptyStr
    /\ t = <<>>
    /\ tweets = <<>>
    /\ nIdent = 0
    /\ nSel = 0
    /\ i = 0
    /\ ret = NoRet
    /\ resp = "ok"
    /\ reqs = <<u>>
    /\ pages = <<>>
    /\ prevMax = EmptyStr
    /\ prev = NoPrev
    /\ malformed = <<>>
    /\ frags = NoFrags
    /\ other = Idle
    /\ archive = NoArchive
    /\ env = AnyMarkup

NextExtract ==
    \/ FindTweets
    \/ PermalinkCb
    \/ FindTimestamps
    \/ TimestampCb
    \/ FindContents
    \/ ContentsCb
    \/ TweetsDone

SpecExtract == InitExtract /\ [][NextExtract]_vars

----------------------------------------------------------------------------
(* Two invocations in two goroutines against a fixed archive; each has its *)
(* own Scrape value. The scheduler suspends one between any two steps and  *)
(* resumes the other: what a goroutine finds when it resumes are its own   *)
(* locals.                                                                 *)

\* the locals of the running invocation
Locals ==
    [args |-> args, pc |-> pc, minID |-> minID, maxID |-> maxID, t |-> t,
     u |-> u, tweets |-> tweets, nIdent |-> nIdent, nSel |-> nSel, i |-> i,
     ret |-> ret, resp |-> resp, reqs |-> reqs, pages |-> pages,
     log |-> log, malformed |-> malformed, frags |-> frags]

\* minID as one package-level variable: the resumed invocation finds the
\* value the suspended one left
SharedMinID(mine, theirs) == mine

\* minID is a local of Tweets: the resumed invocation finds its own
ResumedMinID(mine, theirs) == theirs

\* a panic ends the process, so nothing is resumed after one
Switch ==
    /\ pc # "panic"
    /\ other' = Locals
    /\ args' = other.args
    /\ pc' = other.pc
    /\ minID' = ResumedMinID(minID, other.minID)
    /\ maxID' = other.maxID
    /\ t' = other.t
    /\ u' = other.u
    /\ tweets' = other.tweets
    /\ nIdent' = other.nIdent
    /\ nSel' = other.nSel
    /\ i' = other.i
    /\ ret' = other.ret
    /\ resp' = other.resp
    /\ reqs' = other.reqs
    /\ pages' = other.pages
    /\ log' = other.log
    /\ malformed' = other.malformed
    /\ frags' = other.frags
    /\ UNCHANGED <<calls, info, prevMax, prev, archive, env>>

NextConcurrent ==
    \/ Next
    \/ Switch

SpecConcurrent == InitArchive /\ [][NextConcurrent]_vars

----------------------------------------------------------------------------
(* Two invocations one after the other against a fixed archive, the second *)
(* on another Scrape value: the caller sets or clears Info in between.     *)

\* scr := Scrape{Info: w} in place of Scrape{}, or the reverse
NewScrape ==
    /\ pc = "returned"
    /\ calls < MaxCalls
    /\ info' = ~info
    /\ UNCHANGED <<calls, log, args, pc, minID, maxID, t, u, tweets, nIdent,
                   nSel, i, ret, resp, reqs, pages, prevMax, prev,
                   malformed, frags, other, archive, env>>

NextSink ==
    \/ Next
    \/ NewScrape

SpecSink == InitArchive /\ [][NextSink]_vars

----------------------------------------------------------------------------
(* Properties *)

RECURSIVE Flatten(_)
Flatten(ps) == IF ps = <<>> THEN <<>> ELSE Head(ps) \o Flatten(Tail(ps))

LastOf(s) == s[Len(s)]

\* every page in pages has gone through the rest of the loop body
Processed == Len(pages) >= 1 /\ pc \notin {"tail", "idle"}

\* C1: every request after the first is the first request's URL followed by
\* &max_position=TWEET-<id of the last record of the preceding page>-<id of
\* the first record of the first page>, whatever records the pages hold.
C1_CursorTokenOnLaterRequests ==
    \A k \in 2..Len(reqs) :
        reqs[k] = RawBase(args) \o <<maxPosition>> \o LastOf(pages[k - 1]).ID
                      \o <<"-">> \o pages[1][1].ID

\* C2: the first request of an invocation has no max_position parameter, in
\* the first invocation of the process and in every later one.
C2_FirstRequestHasNoCursor ==
    Len(reqs) >= 1 => (reqs[1] = RawBase(args) /\ ~HasCursor(reqs[1]))

\* a second invocation has issued its first request after an invocation that
\* ended with a non-empty maxID
C2_Witness ==
    calls = 2 /\ Len(reqs) = 1 /\ prevMax # EmptyStr /\ ~HasCursor(reqs[1])

\* C3: once a non-empty page has been appended and maxID equals minID, Tweets
\* has returned the accumulated records with a nil error and has fetched
\* nothing after that page.
C3_GuardStopsTheLoop ==
    (Processed /\ maxID = minID)
        => /\ pc = "returned"
           /\ ret = [done |-> TRUE, tweets |-> t, err |-> "nil"]
           /\ t = Flatten(pages)
           /\ Len(reqs) = Len(pages)

\* the guard ended the loop on the second page, on a real id
C3_Witness ==
    /\ pc = "returned"
    /\ Len(pages) = 2
    /\ maxID = minID
    /\ maxID # EmptyStr
    /\ Len(t) >= 3

\* the fixed archive has this many non-empty pages
ArchivePages == (Len(archive.entries) + PageSize - 1) \div PageSize

\* C4: against a fixed archive, whose pages are finitely many and followed by
\* an empty page, Tweets returns on the empty page at the latest: it fetches
\* each non-empty page and the empty page at most once, whatever placeholder
\* records the pages hold.
C4_ReturnsOnExhaustion ==
    archive.fixed => Len(reqs) <= ArchivePages + 1

\* C5: once the first non-empty page has been processed, processing a later
\* page leaves minID unchanged.
C5_FloorSetOnce ==
    [][(pc = "tail" /\ Len(pages) >= 2) => minID' = minID]_vars

\* the URL of the next request does not parse, and the loop has not
\* ended on the guard
BadNextURL ==
    /\ Processed
    /\ pc # "loop"
    /\ maxID # minID
    /\ ParseFails(RawURL(args, maxID, minID))

\* C6: after a transport error, a decode error or a URL that does not parse,
\* Tweets has returned that failure and no records, and has fetched nothing
\* since.
C6_HardFailureReturnsNothing ==
    /\ resp \in {"transport", "decode"}
          => /\ pc = "returned"
             /\ ret = [done |-> TRUE, tweets |-> <<>>, err |-> resp]
             /\ Len(reqs) = Len(pages) + 1
    /\ BadNextURL
          => /\ pc = "returned"
             /\ ret = [done |-> TRUE, tweets |-> <<>>, err |-> "parse"]
             /\ Len(reqs) = Len(pages)

\* a fetch failed after records had been accumulated
C6_Witness ==
    /\ pc = "returned"
    /\ resp \in {"transport", "decode"}
    /\ Len(t) >= 2
    /\ ret.tweets = <<>>

\* the page just fetched has no identity fragment
EmptyPageSeen == resp = "ok" /\ pc \notin {"find", "loop", "fetch"} /\ nIdent = 0

\* C7: after a page with no identity fragment, Tweets has returned every
\* record accumulated so far with a nil error; after an empty first page the
\* result is empty.
C7_EmptyPageEndsWithoutError ==
    EmptyPageSeen
        => /\ pc = "returned"
           /\ ret = [done |-> TRUE, tweets |-> Flatten(pages), err |-> "nil"]
           /\ Len(reqs) = Len(pages) + 1
           /\ (pages = <<>> => ret.tweets = <<>>)

\* an empty page ended an invocation that had accumulated records
C7_Witness ==
    /\ EmptyPageSeen
    /\ pc = "returned"
    /\ Len(pages) = 1
    /\ Len(ret.tweets) >= 2

\* C8: a return with a nil error returns the concatenation, in fetch order,
\* of the pages tweets returned, each in its own order.
C8_ResultIsConcatenation ==
    (pc = "returned" /\ ret.err = "nil")
        => /\ ret.tweets = Flatten(pages)
           /\ Len(ret.tweets) = Len(Flatten(pages))

\* two pages of different records have been returned
C8_Witness ==
    /\ pc = "returned"
    /\ ret.err = "nil"
    /\ Len(pages) = 2
    /\ Len(ret.tweets) >= 3
    /\ pages[1] # pages[2]
    /\ pages[1][1] # LastOf(pages[1])

\* C9: once pass 1 is over, extraction of a page with N >= 1 identity
\* fragments goes on to return exactly N records, whatever the number of
\* timestamp and content fragments: it does not abort and the count stays N.
C9_CountFixedByPass1 ==
    (pc \in {"timestamp", "contents", "tail", "panic"} /\ nIdent >= 1)
        => (pc # "panic" /\ Len(tweets) = nIdent)

\* C10: in passes 2 and 3 the callback for a fragment at an index i >= N
\* writes to no record and does not abort the extraction.
C10_ExcessFragmentDiscarded ==
    [][(pc \in {"timestamp", "contents"} /\ i < nSel /\ i >= nIdent)
          => (tweets' = tweets /\ pc' = pc /\ i' = i + 1)]_vars


\* a line was written to the sink
Logged(line) ==
    \E k \in 1..Len(log) : log[k][1] = line[1] /\ log[k] = line

\* two records carry the same identity: permalink, author handle and id
SameIdentity(a, b) ==
    a.Permalink = b.Permalink /\ a.Name = b.Name /\ a.ID = b.ID

\* C11: in pass 2 (resp. 3) the fragment at document index i < N changes at
\* most the timestamp (resp. the content) of record i: the identity fields of
\* every record, every field of the other records and the number of records
\* stay as they were, and the index moves on by one whether the fragment is
\* used or skipped.
C11_PassWritesOnlyItsField ==
    [][(pc \in {"timestamp", "contents"} /\ i < nSel /\ i < nIdent)
          => /\ Len(tweets') = Len(tweets)
             /\ \A k \in 1..Len(tweets) :
                    /\ SameIdentity(tweets'[k], tweets[k])
                    /\ k # i + 1 => tweets'[k] = tweets[k]
             /\ pc = "timestamp" => tweets'[i + 1].Contents = tweets[i + 1].Contents
             /\ pc = "contents" => tweets'[i + 1].Timestamp = tweets[i + 1].Timestamp
             /\ i' = i + 1
             /\ pc' = pc]_vars

\* pass 2 skipped fragment 0 and wrote fragment 1 into record 1, pass 3 did
\* the same, and both records still carry their identity
C11_Witness ==
    /\ pc = "tail" /\ Len(tweets) = 2
    /\ tweets[1].ID # EmptyStr /\ tweets[2].ID # EmptyStr
    /\ tweets[1].Timestamp = ZeroTime /\ tweets[2].Timestamp # ZeroTime
    /\ tweets[1].Contents = EmptyStr /\ tweets[2].Contents # EmptyStr
    /\ Logged(<<"no timestamp", 0>>) /\ Logged(<<"empty contents", 0>>)

\* C12 as stated: an identity fragment with a missing permalink or fewer than
\* MinSegments segments leaves, at its own position of the returned page, a
\* record with all fields empty, and the page is not shortened.
C12_PlaceholderAllEmpty ==
    pc = "tail"
        => /\ Len(tweets) = Len(malformed)
           /\ \A k \in 1..Len(malformed) : malformed[k] => tweets[k] = EmptyTweet

\* C12 amended: such a fragment leaves, at its own position, a record whose
\* permalink, author handle and id are empty, and the page is not shortened;
\* the record is all empty when pass 1 appends it, and passes 2 and 3 then
\* treat it like any other record, so the returned record carries the
\* timestamp and the content of the fragments at its index.
C12_PlaceholderHasNoIdentity ==
    pc \in {"permalink", "timestamp", "contents", "tail"}
        => /\ Len(tweets) = Len(malformed)
           /\ \A k \in 1..Len(malformed) :
                  malformed[k]
                      => /\ SameIdentity(tweets[k], EmptyTweet)
                         /\ pc = "permalink" => tweets[k] = EmptyTweet

\* a returned page whose first fragment was malformed and whose second was
\* not: the placeholder is in first place and passes 2 and 3 have filled it
C12_Witness ==
    /\ pc = "tail" /\ malformed = <<TRUE, FALSE>> /\ Len(tweets) = 2
    /\ SameIdentity(tweets[1], EmptyTweet) /\ tweets[2].ID # EmptyStr
    /\ tweets[1].Timestamp # ZeroTime /\ tweets[1].Contents # EmptyStr

\* C13: soft failures (a missing or malformed permalink, a missing or
\* unparsable timestamp, an empty content, selections of different sizes)
\* never make the extraction of a page with at least one identity fragment
\* fail and never abort Tweets: the extraction runs to its end, and an
\* invocation that returns an error does so for a hard failure only.
C13_SoftFailuresNeverAbort ==
    /\ nIdent >= 1 => pc # "panic"
    /\ (pc = "returned" /\ ret.err # "nil")
           => (resp \in {"transport", "decode"} \/ ret.err = "parse")

RECURSIVE FloorAfter(_)
\* minID after the pages ps of one invocation have gone through the loop body
FloorAfter(ps) ==
    IF ps = <<>>
    THEN EmptyStr
    ELSE NextMinID(FloorAfter(SubSeq(ps, 1, Len(ps) - 1)), LastOf(ps))

\* maxID after the pages ps of one invocation have gone through the loop body
CursorAfter(ps) == IF ps = <<>> THEN EmptyStr ELSE LastOf(LastOf(ps)).ID

\* the requests and the result of the invocation with locals c are those its
\* own arguments and its own pages give
OwnRun(c) ==
    /\ \A k \in 1..Len(c.reqs) :
           LET seen == SubSeq(c.pages, 1, k - 1)
           IN  c.reqs[k] = RawURL(c.args, CursorAfter(seen), FloorAfter(seen))
    /\ (c.pc = "returned" /\ c.ret.err = "nil") => c.ret.tweets = Flatten(c.pages)

\* C15: two invocations that run concurrently, their steps interleaved in any
\* order, each use their own minID and maxID only: every request of either is
\* built from its own arguments and the pages it fetched itself, and its
\* result is the concatenation of its own pages, as when it runs alone.
C15_ConcurrentInvocationsIndependent == OwnRun(Locals) /\ OwnRun(other)

\* both invocations have fetched twice, the suspended one stopped between the
\* first page and the second request of the running one
C15_Witness ==
    /\ Len(reqs) = 2 /\ Len(other.reqs) = 2
    /\ HasCursor(reqs[2]) /\ HasCursor(other.reqs[2])
    /\ pc = "returned" /\ ret.err = "nil" /\ Len(ret.tweets) >= 2
    /\ other.pc \notin {"idle", "returned"}
    /\ args # other.args

\* an invocation whose fetches all got an answer from the source
Answered(r) == r.done /\ r.err \in {"nil", "parse"}

\* C16: a second invocation with the arguments of the first, against the same
\* unchanged archive that answers every fetch of both, returns what the first
\* returned and has fetched the same URLs in the same order.
C16_SecondRunRepeatsFirst ==
    (pc = "returned" /\ Answered(ret) /\ Answered(prev.ret) /\ prev.args = args)
        => /\ ret = prev.ret
           /\ reqs = prev.reqs

\* the second of two invocations with the same arguments has returned, both
\* after two fetches and with records
C16_Witness ==
    /\ calls = 2 /\ pc = "returned" /\ ret.err = "nil"
    /\ Answered(prev.ret) /\ prev.args = args
    /\ Len(reqs) = 2 /\ Len(prev.reqs) = 2 /\ Len(ret.tweets) >= 2

\* the "fetching <url>" lines and the "<n> tweets processed" lines of the log
FetchLines == SelectSeq(log, LAMBDA l : l[1] = "fetching")
ProcessedLines == SelectSeq(log, LAMBDA l : l[1] = "processed")

\* C17 as stated: with a sink, every fetch writes one "fetching" line and
\* every fetched page one "processed" line, the last page of the invocation
\* included: an invocation that returns without error, all of whose fetches
\* brought a page, has written as many lines of either kind as it has fetched.
C17_LinePairPerFetchedPage ==
    info => /\ Len(FetchLines) = Len(reqs)
            /\ (pc = "returned" /\ ret.err = "nil")
                   => Len(ProcessedLines) = Len(reqs)

\* C17 amended: with a sink, every fetch writes one "fetching <url>" line, and
\* every page from which tweets returns records writes one "<n> tweets
\* processed" line, n the number of its records; a page without identity
\* fragments, which is the page that ends an invocation by exhaustion, writes
\* no "processed" line.
C17_LinePerFetchAndPerReturnedPage ==
    info => /\ FetchLines = [k \in 1..Len(reqs) |-> <<"fetching", reqs[k]>>]
            /\ ProcessedLines
                   = [k \in 1..Len(pages) |-> <<"processed", Len(pages[k])>>]
            /\ EmptyPageSeen => Len(ProcessedLines) = Len(FetchLines) - 1

\* an invocation with a sink has ended on the empty second page
C17_Witness ==
    /\ info /\ EmptyPageSeen /\ pc = "returned"
    /\ Len(FetchLines) = 2 /\ Len(ProcessedLines) = 1
    /\ ProcessedLines[1] = <<"processed", 2>>

\* the "fetching" and the "processed" lines of the log, in the order written
ProgressLines == SelectSeq(log, LAMBDA l : l[1] \in {"fetching", "processed"})

\* the progress lines alternate: the fetching line of request k, then the
\* processed line of page k, then the fetching line of request k + 1
InFetchOrder(fp) ==
    \A k \in 1..Len(fp) :
        IF k % 2 = 1
        THEN /\ fp[k][1] = "fetching"
             /\ (k + 1) \div 2 <= Len(reqs)
             /\ fp[k][2] = reqs[(k + 1) \div 2]
        ELSE /\ fp[k][1] = "processed"
             /\ k \div 2 <= Len(pages)
             /\ fp[k][2] = Len(pages[k \div 2])

\* C18: with a sink the progress lines come in fetch order, and when the
\* first page has n records whose first and last ids differ, the first three
\* of them are the fetching line of a URL without cursor token, "n tweets
\* processed", and the fetching line of a URL that carries a cursor token.
C18_ProgressLinesInFetchOrder ==
    info => LET fp == ProgressLines
            IN  /\ InFetchOrder(fp)
                /\ (/\ Len(fp) >= 3
                    /\ pages[1][1].ID # LastOf(pages[1]).ID)
                       => /\ fp[1] = <<"fetching", RawBase(args)>>
                          /\ ~HasCursor(fp[1][2])
                          /\ fp[2] = <<"processed", Len(pages[1])>>
                          /\ fp[3][1] = "fetching"
                          /\ HasCursor(fp[3][2])

\* the two ids of the token TWEET-<first>-<second> of a URL
TokenIDs(url) == Split(CursorOf(url), "-")

\* C19 as stated: when the first page ends with a record of id X, the cursor
\* token of the second fetch has X in the floor position, the second of
\* TWEET-<cursorID>-<floorID>.
C19_LastIDInFloorPosition ==
    (Len(reqs) >= 2 /\ LastOf(pages[1]).ID # EmptyStr)
        => /\ HasCursor(reqs[2])
           /\ TokenIDs(reqs[2])[2] = LastOf(pages[1]).ID

\* C19 amended: when the first page ends with a record of id X, the cursor
\* token of the second fetch has X in the cursor position, the first of
\* TWEET-<cursorID>-<floorID>; the floor position holds the id of the first
\* record of the page, which is not X.
C19_LastIDInCursorPosition ==
    (Len(reqs) >= 2 /\ LastOf(pages[1]).ID # EmptyStr)
        => /\ HasCursor(reqs[2])
           /\ Len(TokenIDs(reqs[2])) = 2
           /\ TokenIDs(reqs[2])[1] = LastOf(pages[1]).ID
           /\ TokenIDs(reqs[2])[2] = pages[1][1].ID
           /\ TokenIDs(reqs[2])[2] # LastOf(pages[1]).ID

\* a second fetch after a single page that starts with id 2 and ends with 1
C19_Witness ==
    /\ Len(reqs) = 2 /\ Len(pages) = 1 /\ Len(pages[1]) = 2
    /\ pages[1][1].ID = <<"2">> /\ pages[1][2].ID = <<"1">>
    /\ TokenIDs(reqs[2]) = <<<<"1">>, <<"2">>>>

\* C20: without a sink no line is written at any step, and the invocation
\* goes its way all the same: when it returns an error, that is a hard
\* failure of a fetch or of the URL, never the missing sink.
C20_SilentWithoutSink ==
    ~info => /\ log = <<>>
             /\ ret.err # "nil"
                    => (resp \in {"transport", "decode"} \/ ret.err = "parse")

\* an invocation without sink has returned two pages, the first of which
\* begins with a placeholder, for which a sink would have got a warning
C20_Witness ==
    /\ ~info /\ log = <<>>
    /\ pc = "returned" /\ ret.err = "nil" /\ Len(reqs) = 2 /\ Len(pages) = 2
    /\ SameIdentity(pages[1][1], EmptyTweet)

\* what a request has after the text of the first request
AfterFirst(k) == SubSeq(reqs[k], Len(reqs[1]) + 1, Len(reqs[k]))

\* C21: the search term, the dates and the fixed parameters are the same in
\* every request of an invocation: every request begins with the whole text
\* of the first, and whatever follows is one max_position parameter, with no
\* further "&".
C21_RequestsDifferByCursorOnly ==
    \A k \in 2..Len(reqs) :
        /\ Len(reqs[k]) >= Len(reqs[1])
        /\ SubSeq(reqs[k], 1, Len(reqs[1])) = reqs[1]
        /\ \/ AfterFirst(k) = <<>>
           \/ /\ Head(AfterFirst(k)) = maxPosition
              /\ \A j \in 2..Len(AfterFirst(k)) :
                     AfterFirst(k)[j] \notin {"&", "=", "?", maxPosition}

\* a second request for a search term with a space and an operator, with the
\* cursor parameter after the text of the first request
C21_Witness ==
    /\ Len(reqs) = 2 /\ args.search = Search2
    /\ reqs[2] # reqs[1] /\ Head(AfterFirst(2)) = maxPosition

\* a data-permalink-path of the form /<handle>/s/<id>, s standing for status
StatusPath(frag) ==
    /\ frag.has
    /\ Len(frag.path) >= 5
    /\ SubSeq(frag.path, 1, 5) = <<"/", "a", "/", "s", "/">>
    /\ \A j \in 6..Len(frag.path) : frag.path[j] # "/"

\* permalink, handle and id are those of the path of the fragment
IdentityOfPath(tw, frag) ==
    /\ tw.Permalink = <<"https://www.twitter.com">> \o frag.path
    /\ tw.Name = <<"a">>
    /\ tw.ID = SubSeq(frag.path, 6, Len(frag.path))

\* C22: an identity fragment with a path /<handle>/status/<id> gives in pass
\* 1 the record with permalink "https://www.twitter.com" + path, that handle
\* and that id, timestamp and content unset; the record keeps this identity
\* to the end of the page, and the last record of a result returned without
\* error is the last record of the last page with records, with the identity
\* of that page's last path.
C22_IdentityFromPermalinkPath ==
    /\ pc \in {"permalink", "timestamp", "contents", "tail"}
           => \A k \in 1..Len(frags.ids) :
                  StatusPath(frags.ids[k])
                      => /\ k <= Len(tweets)
                         /\ IdentityOfPath(tweets[k], frags.ids[k])
                         /\ pc = "permalink"
                                => /\ tweets[k].Timestamp = ZeroTime
                                   /\ tweets[k].Contents = EmptyStr
    /\ (pc = "returned" /\ ret.err = "nil" /\ pages # <<>>)
           => /\ LastOf(ret.tweets) = LastOf(LastOf(pages))
              /\ Len(frags.ids) = Len(LastOf(pages))
              /\ StatusPath(LastOf(frags.ids))
                     => IdentityOfPath(LastOf(ret.tweets), LastOf(frags.ids))

\* a result of two pages of two records: its last record has the identity of
\* the last path of the second page, and a timestamp
C22_Witness ==
    /\ pc = "returned" /\ ret.err = "nil" /\ Len(pages) = 2
    /\ Len(ret.tweets) = 4
    /\ LastOf(frags.ids) = GoodPath(<<"1">>)
    /\ LastOf(ret.tweets).ID = <<"1">>
    /\ LastOf(ret.tweets).Name = <<"a">>
    /\ LastOf(ret.tweets).Timestamp # ZeroTime

\* C23: when the first page has exactly one record, the invocation fetches
\* once: as soon as the page has gone through the loop body the invocation
\* has returned that one record without error, and no second request is made.
C23_SingleRecordPageFetchedOnce ==
    (Len(pages) >= 1 /\ Len(pages[1]) = 1)
        => /\ Len(reqs) = 1
           /\ Len(pages) = 1
           /\ pc # "tail"
                  => /\ pc = "returned"
                     /\ ret = [done |-> TRUE, tweets |-> pages[1], err |-> "nil"]

\* an invocation has returned the single record, with id 2, of its first page
C23_Witness ==
    /\ pc = "returned" /\ Len(reqs) = 1 /\ Len(pages) = 1
    /\ Len(ret.tweets) = 1 /\ ret.tweets[1].ID = <<"2">> /\ ret.err = "nil"

\* C24: whenever f is called for a request after the first, that is at the
\* top of the loop once a page has been processed, maxID is not empty,
\* whatever the page held, a last record that is a placeholder included.
C24_CursorSetOnLaterBuilds ==
    (pc = "loop" /\ Len(pages) >= 1) => maxID # EmptyStr

\* 3:26 PM - 10 Nov 2009, the time of GoodTitle
GoodTime == [y |-> 2009, mo |-> 11, d |-> 10, h |-> 15, mi |-> 26]

\* C25: in pass 2, for the timestamp fragment at index i < N: without a title
\* attribute record i is left as it is; with a title that does not parse its
\* timestamp becomes the zero time; otherwise it becomes the parsed time. In
\* the three cases the records are as many as before, record i keeps its
\* identity, and the pass goes on with the fragment at i + 1.
C25_TimestampCases ==
    [][(pc = "timestamp" /\ i < nSel /\ i < nIdent)
          => LET frag == LastOf(frags'.ts)
             IN  /\ Len(frags'.ts) = i + 1
                 /\ ~frag.has => tweets' = tweets
                 /\ (frag.has /\ frag.title = BadTitle)
                        => tweets'[i + 1].Timestamp = ZeroTime
                 /\ (frag.has /\ frag.title = GoodTitle)
                        => tweets'[i + 1].Timestamp = GoodTime
                 /\ Len(tweets') = Len(tweets)
                 /\ SameIdentity(tweets'[i + 1], tweets[i + 1])
                 /\ i' = i + 1
                 /\ pc' = "timestamp"]_vars

\* a page of two records after pass 2, the first fragment without title and
\* the second with a good one
C25_Witness ==
    /\ pc = "contents" /\ Len(tweets) = 2 /\ Len(frags.ts) = 2
    /\ ~frags.ts[1].has /\ frags.ts[2] = [has |-> TRUE, title |-> GoodTitle]
    /\ tweets[1].Timestamp = ZeroTime /\ tweets[2].Timestamp = GoodTime
    /\ tweets[1].ID # EmptyStr

\* the same page with a first title that does not parse
C25_WitnessUnparsable ==
    /\ pc = "contents" /\ Len(tweets) = 2 /\ Len(frags.ts) = 2
    /\ frags.ts[1] = [has |-> TRUE, title |-> BadTitle]
    /\ tweets[1].Timestamp = ZeroTime /\ Logged(<<"bad time", 0>>)

\* C26: while an invocation runs, the records in t are never changed or
\* removed: every step leaves t as it is, except the step that ends the
\* processing of a page, after which t is the old t followed by the records
\* of that page.
C26_AccumulatedOnlyGrows ==
    [][pc \notin {"idle", "returned"}
          => /\ Len(t') >= Len(t)
             /\ SubSeq(t', 1, Len(t)) = t
             /\ pc = "tail" => t' = t \o LastOf(pages)
             /\ pc # "tail" => t' = t]_vars

\* the second page, different from the first, has been appended behind it
C26_Witness ==
    /\ Len(pages) = 2 /\ pc \in {"loop", "returned"}
    /\ pages[1] # pages[2] /\ Len(pages[1]) = 2 /\ Len(pages[2]) = 2
    /\ t = pages[1] \o pages[2]

\* the pages an invocation had processed before its request k
SeenBefore(k) == SubSeq(pages, 1, k - 1)

\* C27: an invocation that returns without error has fetched as many times as
\* it has appended pages when the guard maxID == minID ended it, and once
\* more when an empty page ended it. No request follows an empty page, a hard
\* failure or a guard hit: every request after the first follows a page with
\* records that left maxID different from minID, and an invocation that has
\* met an empty page or a failed fetch has returned.
C27_FetchesPerReturnedPages ==
    /\ (pc = "returned" /\ ret.err = "nil")
           => \/ /\ EmptyPageSeen
                 /\ Len(reqs) = Len(pages) + 1
              \/ /\ ~EmptyPageSeen
                 /\ maxID = minID
                 /\ Len(pages) >= 1
                 /\ Len(reqs) = Len(pages)
    /\ Len(reqs) <= Len(pages) + 1
    /\ \A k \in 2..Len(reqs) :
           /\ pages[k - 1] # <<>>
           /\ CursorAfter(SeenBefore(k)) # FloorAfter(SeenBefore(k))
    /\ (EmptyPageSeen \/ resp \in {"transport", "decode"}) => pc = "returned"

\* an invocation ended by the guard on its second page, after two fetches
C27_Witness ==
    /\ pc = "returned" /\ ret.err = "nil" /\ ~EmptyPageSeen
    /\ Len(reqs) = 2 /\ Len(pages) = 2 /\ maxID = minID /\ maxID # EmptyStr
    /\ Len(ret.tweets) = Len(pages[1]) + Len(pages[2])

\* an invocation none of whose fetches failed in transport or decoding
SourceAnswered(r) == r.done /\ r.err \notin {"transport", "decode"}

\* C28: the sink does not act on the result: of two invocations with the
\* same arguments against the same archive, one that wrote to a sink and one
\* without sink, or the reverse,
\* neither with a failed fetch, the second has fetched the URLs of the first
\* in the same order and has returned the same records and the same error.
C28_SinkDoesNotChangeResult ==
    (/\ pc = "returned"
     /\ SourceAnswered(ret) /\ SourceAnswered(prev.ret)
     /\ prev.args = args /\ prev.logged # info)
        => /\ reqs = prev.reqs
           /\ ret.tweets = prev.ret.tweets
           /\ ret.err = prev.ret.err

\* the second invocation ran with a sink, the first without, over a page that
\* has a placeholder, for which the sink got a warning, and an empty page
C28_Witness ==
    /\ calls = 2 /\ pc = "returned" /\ ret.err = "nil"
    /\ SourceAnswered(prev.ret) /\ prev.args = args
    /\ info /\ ~prev.logged
    /\ Len(reqs) = 2 /\ Len(ret.tweets) = 2
    /\ \E k \in 1..Len(log) : log[k][1] = "permalink"
    /\ Len(ProcessedLines) = 1

====
